---------------------------- MODULE Spec2Model ----------------------------
(***************************************************************************)
(* A model of the 3' UTR annotation programs of this repository:           *)
(*                                                                         *)
(*   SpecScript  the stand-alone script peaks_to_UTR.py: the loop over the *)
(*               lines of the forward broadPeak file and, per peak, the    *)
(*               decision made over the features of the peak's window.     *)
(*   SpecAnnotate  one call of AnnotationsPipeline.annotate_utr_for_peak   *)
(*               and the queue.get() that follows it, as the test case of  *)
(*               tests/case2 drives them.                                  *)
(*   Spec        the peak processing of peaks2utr's _main: the batches,    *)
(*               the worker processes, the shared result queue and the     *)
(*               loop that folds the results into the annotations.         *)
(*   FairSpec    Spec with every process scheduled again and again.        *)
(*                                                                         *)
(* Coordinates are integers of a small grid; a feature database is a       *)
(* start-sorted sequence of features of one sequence region (seqid).       *)
(***************************************************************************)
EXTENDS Integers, Sequences, FiniteSets, TLC

VARIABLES
    db,            \* the feature database (gffutils.create_db)
    args,          \* the parsed command line (prepare_argparser)
    peaks,         \* the BroadPeaksList handed to the annotation pipeline
    queue,         \* the result queue, oldest result first
    pos,           \* test case: how many peaks have been annotated
    result,        \* test case: what the last queue.get() returned
    pc,            \* _main: the section it has reached
    processes,     \* _main: the worker processes, one per batch
    annotations,   \* _main: the Annotations being built
    pbar,          \* _main: the progress bar's count
    cur,           \* _main: the place in `processes` of the process drained
    reads,         \* history: the peaks whose results were read, in order
    merged,        \* history: the peaks whose results went to update()
    run,           \* a whole run of _main: exception raised, exit status, log
    fs,            \* the files a run works on: cache, output, tool calls
    broad_peaks,   \* the lines of forward_peaks.broadPeak (csv.reader)
    line,          \* how many lines the peak loop has consumed
    out,           \* the script's `out`: the UTR features written so far
    stdout,        \* what the script has printed
    fout           \* three_prime_UTRs.gff: "unwritten" or the records written

scriptVars == <<broad_peaks, line, out, stdout, fout>>
testVars == <<pos, result>>
mainVars == <<pc, processes, annotations, pbar, cur, reads, merged>>
runVars == <<run, fs>>
vars == <<db, args, peaks, queue, testVars, scriptVars, mainVars, runVars>>

---------------------------------------------------------------------------
(* Bounds of the model                                                     *)

\* how many of the grid's coordinates are in use
NumCoords == 5
\* genes per database on the database's main strand
MaxGenes == 2

\* the coordinate grid: gaps below, at and above the 200 bases of the window
CoordOf == <<600, 900, 1000, 1200, 1500, 1800, 2100>>
Coords == {CoordOf[k] : k \in 1..NumCoords}
Intervals == {iv \in Coords \X Coords : iv[1] < iv[2]}
\* the intervals between neighbouring coordinates
UnitIntervals == {<<CoordOf[k], CoordOf[k + 1]>> : k \in 1..(NumCoords - 1)}

GeneIds == <<"g1", "g2", "g3", "g4">>

---------------------------------------------------------------------------
(* Program constants                                                       *)

\* the script's window around a peak
maxDistanceFromTranscript == 200
\* the default of --max-distance
max_distance_default == 200

---------------------------------------------------------------------------
(* Strings of decimal digits, as csv.reader yields the fields of a line    *)

RECURSIVE Str(_)
Str(n) == IF n < 10 THEN <<n>> ELSE Append(Str(n \div 10), n % 10)

\* Python's int() of a string of decimal digits
RECURSIVE int(_)
int(s) ==
    IF Len(s) = 0 THEN 0
    ELSE 10 * int(SubSeq(s, 1, Len(s) - 1)) + s[Len(s)]

---------------------------------------------------------------------------
(* Feature databases                                                       *)

Feature(id, ft, iv, strand, parent) ==
    [id |-> id, featuretype |-> ft, start |-> iv[1], end |-> iv[2],
     strand |-> strand, Parent |-> parent]

Opposite(strand) == IF strand = "+" THEN "-" ELSE "+"

TypeRank(ft) == CASE ft = "gene" -> 1 [] ft = "exon" -> 2 [] OTHER -> 3

\* f comes before g in a start-sorted listing
Before(f, g) ==
    \/ f.start < g.start
    \/ f.start = g.start /\ TypeRank(f.featuretype) < TypeRank(g.featuretype)
    \/ f.start = g.start /\ f.featuretype = g.featuretype /\ f.end < g.end
    \/ f.start = g.start /\ f.featuretype = g.featuretype /\ f.end = g.end
       /\ f.strand = "+" /\ g.strand = "-"

RECURSIVE SortFeatures(_)
SortFeatures(S) ==
    IF S = {} THEN <<>>
    ELSE LET f == CHOOSE x \in S : \A y \in S \ {x} : Before(x, y)
         IN <<f>> \o SortFeatures(S \ {f})

RECURSIVE SortIntervals(_)
SortIntervals(S) ==
    IF S = {} THEN <<>>
    ELSE LET iv == CHOOSE x \in S : \A y \in S \ {x} :
                       x[1] < y[1] \/ (x[1] = y[1] /\ x[2] < y[2])
         IN <<iv>> \o SortIntervals(S \ {iv})

\* the genes of a layout, numbered in start order, on one strand
GenesOf(G, strand) ==
    LET ivs == SortIntervals(G)
    IN {Feature(GeneIds[k], "gene", ivs[k], strand, "") : k \in 1..Len(ivs)}

\* at most one further feature: an exon, an annotated 3' UTR of one of the
\* genes, or a gene of the opposite strand
Others(G, strand) ==
    {{}}
    \cup {{Feature("e1", "exon", iv, strand, "")} : iv \in UnitIntervals}
    \cup {{Feature("u1", "three_prime_UTR", iv, strand, GeneIds[k])} :
            iv \in UnitIntervals, k \in 1..Cardinality(G)}
    \cup {{Feature("r1", "gene", iv, Opposite(strand), "")} : iv \in UnitIntervals}

DBsOn(strand) ==
    UNION {{SortFeatures(GenesOf(G, strand) \cup O) : O \in Others(G, strand)} :
             G \in {g \in SUBSET Intervals : Cardinality(g) <= MaxGenes}}

---------------------------------------------------------------------------
(* The decision of peaks_to_UTR.py over one peak                           *)

Overlaps(f, start, end) == f.start <= end /\ f.end >= start

\* db.region(seqid, start, end, strand): the features of the strand that
\* overlap [start, end], in database order
region(d, start, end, strand) ==
    LET InRegion(f) == f.strand = strand /\ Overlaps(f, start, end)
    IN SelectSeq(d, InRegion)

\* the window of a peak whose bounds are the integers pstart, pend
window(d, pstart, pend, strand, distance) ==
    region(d, pstart - distance, pend + distance, strand)

\* mutant: the feature type compared in the wrong case
three_prime_utr_lowercase(features) ==
    \E i \in 1..Len(features) : features[i].featuretype = "three_prime_utr"

three_prime_UTR_annotated(features) ==
    \E i \in 1..Len(features) : features[i].featuretype = "three_prime_UTR"

IsGene(f) == f.featuretype = "gene"
IsTranscript(f) == f.featuretype = "mRNA"

\* mutant: the candidates filtered by the wrong feature type
genes_of_wrong_type(features) == SelectSeq(features, IsTranscript)

genes_of(features) == SelectSeq(features, IsGene)

wholly_contained(gene, pstart, pend) ==
    gene.start < pstart /\ gene.end > pend

overlapping_next(genes, idx, pstart, pend) ==
    /\ Len(genes) > idx
    /\ pstart < genes[idx].end
    /\ pend > genes[idx + 1].start

extends_past(gene, pend) == pend > gene.end

\* what the body of the gene loop does for genes[idx]
gene_verdict(genes, idx, pstart, pend) ==
    IF wholly_contained(genes[idx], pstart, pend) THEN "contained"
    ELSE IF overlapping_next(genes, idx, pstart, pend) THEN "overlapping"
    ELSE IF extends_past(genes[idx], pend) THEN "utr"
    ELSE "none"

\* mutant: the feature starts at the gene's start
utr_feature_from_gene_start(gene, peak) ==
    [ID |-> <<gene.id, "_UTR">>, Parent |-> gene.id,
     featuretype |-> "three_prime_UTR", source |-> "3pUTR_annotation",
     start |-> gene.start, end |-> peak.end, strand |-> gene.strand,
     peak |-> peak.name]

\* the feature the script builds for a gene and a peak line
utr_feature(gene, peak) ==
    [ID |-> <<gene.id, "_UTR">>, Parent |-> gene.id,
     featuretype |-> "three_prime_UTR", source |-> "3pUTR_annotation",
     start |-> gene.end, end |-> peak.end, strand |-> gene.strand,
     peak |-> peak.name]

\* the records appended to `out` by the gene loop, in loop order
RECURSIVE loop_out(_, _, _)
loop_out(genes, idx, peak) ==
    IF idx > Len(genes) THEN <<>>
    ELSE (IF gene_verdict(genes, idx, int(peak.start), int(peak.end)) = "utr"
          THEN <<utr_feature(genes[idx], peak)>> ELSE <<>>)
         \o loop_out(genes, idx + 1, peak)

\* the lines printed by the gene loop, in loop order
RECURSIVE loop_prints(_, _, _)
loop_prints(genes, idx, peak) ==
    IF idx > Len(genes) THEN <<>>
    ELSE LET v == gene_verdict(genes, idx, int(peak.start), int(peak.end))
             g == genes[idx]
         IN (CASE v = "contained" ->
                    <<[msg |-> "contained", peak |-> peak.name, gene |-> g.id]>>
               [] v = "overlapping" ->
                    <<[msg |-> "overlapping", peak |-> peak.name, gene |-> g.id,
                       next |-> genes[idx + 1].id]>>
               [] v = "utr" ->
                    <<[msg |-> "corresponds", peak |-> peak.name, gene |-> g.id],
                      [msg |-> "UTR", peak |-> peak.name, start |-> g.end,
                       end |-> peak.end]>>
               [] OTHER -> <<>>)
            \o loop_prints(genes, idx + 1, peak)

---------------------------------------------------------------------------
(* SpecScript: peaks_to_UTR.py                                             *)

\* a line of the broadPeak file; its fields are strings
PeakLine(name, iv) == [name |-> name, start |-> Str(iv[1]), end |-> Str(iv[2])]

\* The loop body carries nothing from one line to the next but the records
\* appended to `out`: the files of the model hold no line or one line.
PeakFiles == {<<>>} \cup {<<PeakLine(1, iv)>> : iv \in Intervals}

\* the variables of the other programs, at rest
IdleScript ==
    /\ broad_peaks = <<>>
    /\ line = 0
    /\ out = <<>>
    /\ stdout = <<>>
    /\ fout = "unwritten"

IdleTest ==
    /\ pos = 0
    /\ result = [py |-> "unset"]

\* no run of _main, no files
IdleRun ==
    /\ run = <<>>
    /\ fs = <<>>

IdleMain ==
    /\ pc = "idle"
    /\ processes = <<>>
    /\ annotations = <<>>
    /\ pbar = 0
    /\ cur = 0
    /\ reads = <<>>
    /\ merged = {}

InitScript ==
    /\ db \in DBsOn("+")
    /\ args = <<>>
    /\ peaks = <<>>
    /\ queue = <<>>
    /\ IdleTest
    /\ IdleMain
    /\ IdleRun
    /\ broad_peaks \in PeakFiles
    /\ line = 0
    /\ out = <<>>
    /\ stdout = <<>>
    /\ fout = "unwritten"

\* the features the script queries for the next line of the file
next_peak == broad_peaks[line + 1]
next_features ==
    window(db, int(next_peak.start), int(next_peak.end), "+",
           maxDistanceFromTranscript)

\* the loop body when the window holds no feature
PeakNoFeatures ==
    /\ fout = "unwritten"
    /\ line < Len(broad_peaks)
    /\ next_features = <<>>
    /\ stdout' = Append(stdout, [msg |-> "no_features", peak |-> next_peak.name])
    /\ line' = line + 1
    /\ UNCHANGED <<db, args, peaks, queue, testVars, mainVars, runVars, broad_peaks, out, fout>>

\* the loop body when the window holds an annotated 3' UTR
PeakAlreadyAnnotated ==
    /\ fout = "unwritten"
    /\ line < Len(broad_peaks)
    /\ next_features # <<>>
    /\ three_prime_UTR_annotated(next_features)
    /\ stdout' = Append(stdout, [msg |-> "already_annotated", peak |-> next_peak.name])
    /\ line' = line + 1
    /\ UNCHANGED <<db, args, peaks, queue, testVars, mainVars, runVars, broad_peaks, out, fout>>

\* the loop body otherwise: the loop over the genes of the window
PeakGeneLoop ==
    /\ fout = "unwritten"
    /\ line < Len(broad_peaks)
    /\ next_features # <<>>
    /\ ~three_prime_UTR_annotated(next_features)
    /\ LET genes == genes_of(next_features)
       IN /\ out' = out \o loop_out(genes, 1, next_peak)
          /\ stdout' = stdout \o loop_prints(genes, 1, next_peak)
    /\ line' = line + 1
    /\ UNCHANGED <<db, args, peaks, queue, testVars, mainVars, runVars, broad_peaks, fout>>

\* after the last line: three_prime_UTRs.gff is written
WriteOut ==
    /\ fout = "unwritten"
    /\ line = Len(broad_peaks)
    /\ fout' = out
    /\ UNCHANGED <<db, args, peaks, queue, testVars, mainVars, runVars, broad_peaks, line, out, stdout>>

NextScript ==
    \/ PeakNoFeatures
    \/ PeakAlreadyAnnotated
    \/ PeakGeneLoop
    \/ WriteOut

SpecScript == InitScript /\ [][NextScript]_vars

---------------------------------------------------------------------------
(* The Python values that travel on the result queue                       *)

None == [py |-> "None"]
\* the class object NoNearbyFeatures, as peaks2utr/__init__.py imports it
NoNearbyFeaturesClass == [py |-> "class", name |-> "NoNearbyFeatures"]
\* what the queue yields for a peak near no gene: the test case requires an
\* instance of the class, an object that is not the class
NoNearbyFeaturesInstance == [py |-> "instance", cls |-> "NoNearbyFeatures"]
\* a dict gene id -> {"utr": UTR(start, end)}; each item carries the name
\* and the signal_value of the peak it came from
Dict(items) == [py |-> "dict", items |-> items]

\* mutant: every result counts as true
truthy_always(v) == TRUE

\* Python's truth value of a result
truthy(v) ==
    CASE v.py = "None" -> FALSE
      [] v.py = "dict" -> v.items # {}
      [] OTHER -> TRUE

---------------------------------------------------------------------------
(* AnnotationsPipeline.annotate_utr_for_peak: the decision of the script,  *)
(* for a peak of either strand and under the parsed arguments              *)

\* a peak of a BroadPeaksList: integer bounds, the strand of its file
Peak(name, iv, strand, signal) ==
    [name |-> name, start |-> iv[1], end |-> iv[2], strand |-> strand,
     signal_value |-> signal]

strand_symbol(peak) == IF peak.strand = "forward" THEN "+" ELSE "-"

\* the gene loop's body on the reverse strand: the mirror of gene_verdict
reverse_verdict(genes, idx, pstart, pend) ==
    IF wholly_contained(genes[idx], pstart, pend) THEN "contained"
    ELSE IF idx > 1 /\ pend > genes[idx].start /\ pstart < genes[idx - 1].end
         THEN "overlapping"
    ELSE IF pstart < genes[idx].start THEN "utr"
    ELSE "none"

peak_verdict(genes, idx, peak) ==
    IF peak.strand = "forward"
    THEN gene_verdict(genes, idx, peak.start, peak.end)
    ELSE reverse_verdict(genes, idx, peak.start, peak.end)

\* UTR(start, end).range: from the gene's boundary to the peak's
utr_range(gene, peak) ==
    IF peak.strand = "forward"
    THEN <<gene.end, peak.end>>
    ELSE <<peak.start, gene.start>>

\* mutant: --override-utr is not consulted
skip_annotated_always(features, a) == three_prime_UTR_annotated(features)

\* an annotated 3' UTR near the peak ends the decision unless overridden
skip_annotated(features, a) ==
    three_prime_UTR_annotated(features) /\ ~a.override_utr

\* what one call puts on the queue
annotate_utr_for_peak(d, peak, a) ==
    LET features == window(d, peak.start, peak.end, strand_symbol(peak),
                           a.max_distance)
        genes == genes_of(features)
        hits == {idx \in 1..Len(genes) : peak_verdict(genes, idx, peak) = "utr"}
    IN IF genes = <<>> THEN NoNearbyFeaturesInstance
       ELSE IF skip_annotated(features, a) THEN None
       ELSE IF hits = {} THEN None
       ELSE Dict({[key |-> genes[idx].id, utr |-> utr_range(genes[idx], peak),
                   signal_value |-> peak.signal_value, peak |-> peak.name] :
                idx \in hits})

\* the item a worker puts for a peak; `peak` names the peak it came from
put_item(d, peak, a) ==
    [peak |-> peak.name, value |-> annotate_utr_for_peak(d, peak, a)]

---------------------------------------------------------------------------
(* SpecAnnotate: the test case's loop over its peaks                       *)

\* argparser.parse_args(["", ""]), with override_utr as the test sets it
ParsedArgs(override, processors) ==
    [max_distance |-> max_distance_default,
     override_utr |-> override, extend_utr |-> FALSE,
     processors |-> processors]

InitAnnotate ==
    /\ \E strand \in {"forward", "reverse"} :
           /\ db \in DBsOn(IF strand = "forward" THEN "+" ELSE "-")
           /\ peaks \in {<<Peak(1, iv, strand, 1)>> : iv \in Intervals}
    /\ args \in {ParsedArgs(ov, 1) : ov \in BOOLEAN}
    /\ queue = <<>>
    /\ pos = 0
    /\ result = [py |-> "unset"]
    /\ IdleScript
    /\ IdleMain
    /\ IdleRun

\* pipeline.annotate_utr_for_peak(self.db, peak, ...)
Annotate ==
    /\ pos < Len(peaks)
    /\ queue = <<>>
    /\ queue' = Append(queue, put_item(db, peaks[pos + 1], args))
    /\ pos' = pos + 1
    /\ UNCHANGED <<db, args, peaks, result, scriptVars, mainVars, runVars>>

\* result = pipeline.queue.get()
Get ==
    /\ queue # <<>>
    /\ result' = Head(queue).value
    /\ queue' = Tail(queue)
    /\ UNCHANGED <<db, args, peaks, pos, scriptVars, mainVars, runVars>>

NextAnnotate == Annotate \/ Get

SpecAnnotate == InitAnnotate /\ [][NextAnnotate]_vars

---------------------------------------------------------------------------
(* Spec: the peak processing of _main, from the loaded peaks to the        *)
(* post-processing                                                         *)

MaxPeaks == 3
MaxProcessors == 3

\* the annotation database of the fixture: one forward gene
FixtureDB == <<Feature("g1", "gene", <<600, 1200>>, "+", "")>>

\* the peaks of the fixture in load order, the forward file before the
\* reverse file: one inside the gene, four past its end (three of them to
\* the same place, two of these with the same signal), two near no gene
FixturePeaks ==
    <<Peak(6, <<600, 1500>>, "forward", 7),
      Peak(1, <<900, 1000>>, "forward", 5),
      Peak(2, <<900, 1500>>, "forward", 7),
      Peak(7, <<1000, 1500>>, "forward", 9),
      Peak(3, <<1000, 1800>>, "forward", 3),
      Peak(4, <<1500, 1800>>, "forward", 4),
      Peak(5, <<600, 900>>, "reverse", 6)>>

\* the entries of a list at the places S, in the list's order
RECURSIVE Pick(_, _)
Pick(lst, S) ==
    IF lst = <<>> THEN <<>>
    ELSE LET rest == Pick(Tail(lst), {i - 1 : i \in S \ {1}})
         IN IF 1 \in S THEN <<Head(lst)>> \o rest ELSE rest

\* BroadPeaksList(forward) + BroadPeaksList(reverse): up to MaxPeaks peaks
PeakLists ==
    {Pick(FixturePeaks, S) : S \in {T \in SUBSET (1..Len(FixturePeaks)) :
                                        Cardinality(T) <= MaxPeaks}}

\* mutant: the division rounded down
batch_size_floor(total_peaks, processors) == total_peaks \div processors

\* mutant: the processor count taken for the size of a batch
batch_size_is_processors(total_peaks, processors) == processors

\* math.ceil(total_peaks / args.processors)
batch_size(total_peaks, processors) ==
    (total_peaks + processors - 1) \div processors

\* utils.iter_batches: the list cut into consecutive runs of n entries, the
\* last one shorter; no run when there is nothing to cut
iter_batches(lst, n) ==
    IF n = 0 \/ lst = <<>> THEN <<>>
    ELSE [i \in 1..((Len(lst) + n - 1) \div n) |->
             SubSeq(lst, (i - 1) * n + 1,
                    IF i * n < Len(lst) THEN i * n ELSE Len(lst))]

\* batch_annotate_strand(db, batch, queue, args): a process not yet started
Process(batch) == [batch |-> batch, done |-> 0, state |-> "created"]

\* Annotations(): an empty mapping and a counter at zero
Annotations == [data |-> {}, no_features_counter |-> 0]

utr_length(e) == e.utr[2] - e.utr[1]

\* mutant: the record that arrives later replaces the one held
keep_latest(old, new) == new

\* mutant: of two equally long records the one held stays
keep_ignores_signal(old, new) ==
    IF utr_length(new) > utr_length(old) THEN new ELSE old

\* of two records for one gene the longer stays, of two equally long the one
\* of the higher signal_value, else the one already held
keep(old, new) ==
    IF utr_length(new) > utr_length(old) THEN new
    ELSE IF utr_length(new) = utr_length(old)
            /\ new.signal_value > old.signal_value THEN new
    ELSE old

\* Annotations.update(result): the records of a dict enter the mapping; an
\* object that holds no records leaves it as it is
update(a, v) ==
    IF v.py # "dict" THEN a
    ELSE [a EXCEPT !.data =
             {e \in a.data : \A n \in v.items : n.key # e.key}
             \cup {n \in v.items : \A e \in a.data : e.key # n.key}
             \cup {keep(e, n) : <<e, n>> \in
                      {p \in a.data \X v.items : p[1].key = p[2].key}}]

\* result is NoNearbyFeatures: the identity of the class object
is_NoNearbyFeatures(v) == v = NoNearbyFeaturesClass

\* the body of the aggregation loop
fold(a, v) ==
    IF truthy(v)
    THEN IF is_NoNearbyFeatures(v)
         THEN [a EXCEPT !.no_features_counter = @ + 1]
         ELSE update(a, v)
    ELSE a

\* whether the body hands the result to annotations.update
updates(v) == truthy(v) /\ ~is_NoNearbyFeatures(v)

\* mutant: the loop leaves out the last process
last_skipped(c, procs) == c >= Len(procs)

\* for p in processes: the loop has gone through every process
all_drained(c, procs) == c > Len(procs)

Init ==
    /\ db = FixtureDB
    /\ peaks \in PeakLists
    /\ args \in {ParsedArgs(FALSE, n) : n \in 1..MaxProcessors}
    /\ queue = <<>>
    /\ pc = "process_peaks"
    /\ processes = <<>>
    /\ annotations = <<>>
    /\ pbar = 0
    /\ cur = 0
    /\ reads = <<>>
    /\ merged = {}
    /\ IdleTest
    /\ IdleScript
    /\ IdleRun

\* queue = multiprocessing.Queue(); processes = [batch_annotate_strand(...)
\* for batch in iter_batches(peaks, ceil(total_peaks / processors))]
CreateProcesses ==
    /\ pc = "process_peaks"
    /\ LET batches == iter_batches(peaks, batch_size(Len(peaks), args.processors))
       IN processes' = [i \in 1..Len(batches) |-> Process(batches[i])]
    /\ queue' = <<>>
    /\ pc' = "start"
    /\ UNCHANGED <<db, args, peaks, annotations, pbar, cur, reads, merged,
                   testVars, scriptVars, runVars>>

\* for p in processes: p.start() -- one turn of the loop
StartProcess ==
    /\ pc = "start"
    /\ \E i \in 1..Len(processes) :
           /\ processes[i].state = "created"
           /\ \A j \in 1..(i - 1) : processes[j].state # "created"
           /\ processes' = [processes EXCEPT ![i].state = "running"]
    /\ UNCHANGED <<db, args, peaks, queue, pc, annotations, pbar, cur, reads,
                   merged, testVars, scriptVars, runVars>>

\* annotations = Annotations(); with tqdm(total=total_peaks) as pbar
BeginAggregate ==
    /\ pc = "start"
    /\ \A i \in 1..Len(processes) : processes[i].state # "created"
    /\ annotations' = Annotations
    /\ pbar' = 0
    /\ cur' = 1
    /\ pc' = "aggregate"
    /\ UNCHANGED <<db, args, peaks, queue, processes, reads, merged,
                   testVars, scriptVars, runVars>>

\* a worker process annotates the next peak of its batch
WorkerPut(w) ==
    /\ processes[w].state = "running"
    /\ processes[w].done < Len(processes[w].batch)
    /\ queue' = Append(queue,
                    put_item(db, processes[w].batch[processes[w].done + 1], args))
    /\ processes' = [processes EXCEPT ![w].done = @ + 1]
    /\ UNCHANGED <<db, args, peaks, pc, annotations, pbar, cur, reads, merged,
                   testVars, scriptVars, runVars>>

\* a worker process is through its batch and exits
WorkerExit(w) ==
    /\ processes[w].state = "running"
    /\ processes[w].done = Len(processes[w].batch)
    /\ processes' = [processes EXCEPT ![w].state = "exited"]
    /\ UNCHANGED <<db, args, peaks, queue, pc, annotations, pbar, cur, reads,
                   merged, testVars, scriptVars, runVars>>

\* yield_from_process hands over the next result of the queue, the progress
\* bar advances, and the loop's body folds the result
ConsumeResult ==
    /\ pc = "aggregate"
    /\ ~all_drained(cur, processes)
    /\ queue # <<>>
    /\ LET item == Head(queue)
       IN /\ annotations' = fold(annotations, item.value)
          /\ reads' = Append(reads, item.peak)
          /\ merged' = IF updates(item.value) THEN merged \cup {item.peak}
                       ELSE merged
    /\ queue' = Tail(queue)
    /\ pbar' = pbar + 1
    /\ UNCHANGED <<db, args, peaks, pc, processes, cur, testVars, scriptVars, runVars>>

\* yield_from_process returns: the process has exited and the queue is empty
NextProcess ==
    /\ pc = "aggregate"
    /\ ~all_drained(cur, processes)
    /\ queue = <<>>
    /\ processes[cur].state = "exited"
    /\ cur' = cur + 1
    /\ UNCHANGED <<db, args, peaks, queue, pc, processes, annotations, pbar,
                   reads, merged, testVars, scriptVars, runVars>>

\* the loop over the processes ends; post-processing begins
EndAggregate ==
    /\ pc = "aggregate"
    /\ all_drained(cur, processes)
    /\ pc' = "post"
    /\ UNCHANGED <<db, args, peaks, queue, processes, annotations, pbar, cur,
                   reads, merged, testVars, scriptVars, runVars>>

Worker(w) == WorkerPut(w) \/ WorkerExit(w)

Workers == 1..Len(processes)

Main ==
    \/ CreateProcesses
    \/ StartProcess
    \/ BeginAggregate
    \/ ConsumeResult
    \/ NextProcess
    \/ EndAggregate

Next ==
    \/ CreateProcesses
    \/ StartProcess
    \/ BeginAggregate
    \/ ConsumeResult
    \/ NextProcess
    \/ EndAggregate
    \/ \E w \in Workers : WorkerPut(w)
    \/ \E w \in Workers : WorkerExit(w)

Spec == Init /\ [][Next]_vars

\* the main process and every worker get their turn
FairSpec ==
    /\ Spec
    /\ WF_vars(Main)
    /\ \A w \in 1..MaxProcessors : WF_vars(w \in Workers /\ Worker(w))

---------------------------------------------------------------------------
(* preprocess.py: the build steps and their cache files.  A file name is   *)
(* the sequence of its parts between the dots.                             *)

MaxClears == 1
MaxCalls == 2

\* os.path.basename(os.path.splitext(name)[0]) of the input files
GffNames == {<<"annot">>, <<"forward_peaks">>}
BamNames == {<<"reads">>, <<"annot">>}
Strands == {"forward", "reverse"}

\* bam_basename + '.%s.bam' % strand
bam_key(bam_basename, strand) == bam_basename \o <<strand, "bam">>

\* os.path.basename(os.path.splitext(gff_in)[0] + '.db')
db_key(gff_basename) == gff_basename \o <<"db">>

\* mutant: one peaks file for both strands
peaks_key_one_file(strand) == <<"peaks", "broadPeak">>

\* "%s_peaks.broadPeak" % strand
peaks_key(strand) ==
    <<IF strand = "forward" THEN "forward_peaks" ELSE "reverse_peaks", "broadPeak">>

\* the log file call_peaks writes MACS2's output to
macs2_log(strand) ==
    <<IF strand = "forward" THEN "forward_macs2" ELSE "reverse_macs2", "log">>

\* the cache files of a run on the given inputs
CacheKeys(gff_basename, bam_basename) ==
    {bam_key(bam_basename, st) : st \in Strands}
    \cup {db_key(gff_basename)}
    \cup {peaks_key(st) : st \in Strands}

\* mutant: the file is taken to be missing whatever the cache holds
never_cached(f, key) == FALSE

\* os.path.isfile(cached(key))
is_cached(f, key) == key \in DOMAIN f.cache

\* the external tool writes the file of a key: the content records which
\* call of the tool wrote it and whether the tool came to its end
invoke(f, key, complete) ==
    [f EXCEPT !.calls = [@ EXCEPT ![key] = @ + 1],
              !.cache = [k \in DOMAIN @ \cup {key} |->
                            IF k = key
                            THEN [call |-> f.calls[key] + 1, complete |-> complete]
                            ELSE @[k]]]

\* the tool is called and fails before it writes its file
invoke_no_file(f, key) == [f EXCEPT !.calls = [@ EXCEPT ![key] = @ + 1]]

\* what a failed tool leaves behind: nothing, or a file it did not finish
failed(f, key, partial) ==
    IF partial THEN invoke(f, key, FALSE) ELSE invoke_no_file(f, key)

\* pysam_strand_split(bam_basename, args, strand)
pysam_strand_split(f, bam_basename, strand) ==
    LET key == bam_key(bam_basename, strand)
    IN IF ~is_cached(f, key) THEN invoke(f, key, TRUE) ELSE f

\* create_db(gff_in): the files after the step, and what it raises
create_db(f, gff_basename, ok, partial) ==
    LET key == db_key(gff_basename)
    IN IF ~is_cached(f, key)
       THEN IF ok THEN [fs |-> invoke(f, key, TRUE), raised |-> "none"]
            ELSE [fs |-> failed(f, key, partial), raised |-> "Exception"]
       ELSE [fs |-> f, raised |-> "none"]

\* mutant: MACS2's exit code is not looked at
macs2_failed_ignored(exit_code) == FALSE

\* exit_code != 0
macs2_failed(exit_code) == exit_code # 0

\* call_peaks(bam_basename, strand): the files after the step, and what it
\* raises; `log` names the file the MACS2Error points to
call_peaks(f, strand, exit_code, partial) ==
    LET key == peaks_key(strand)
    IN IF ~is_cached(f, key)
       THEN IF macs2_failed(exit_code)
            THEN [fs |-> failed(f, key, partial), raised |-> "MACS2Error",
                  log |-> macs2_log(strand)]
            ELSE [fs |-> invoke(f, key, TRUE), raised |-> "none", log |-> <<>>]
       ELSE [fs |-> f, raised |-> "none", log |-> <<>>]

\* an empty cache directory on which no tool has been called
EmptyCache(keys) ==
    [cache_dir |-> TRUE, made |-> FALSE, cache |-> <<>>, output |-> "absent",
     calls |-> [k \in keys |-> 0], clears |-> 0, reran |-> {}]

\* shutil.rmtree(constants.CACHE_DIR)
rmtree(f) == [f EXCEPT !.cache_dir = FALSE, !.cache = <<>>]

---------------------------------------------------------------------------
(* SpecCache: the build steps called again and again on one cache          *)

\* the part of args the steps read
InputNames(gff_basename, bam_basename) ==
    [GFF_IN |-> gff_basename, BAM_IN |-> bam_basename]

InitCache ==
    /\ args \in {InputNames(g, b) : g \in GffNames, b \in BamNames}
    /\ fs = EmptyCache(CacheKeys(args.GFF_IN, args.BAM_IN))
    /\ run = <<>>
    /\ db = <<>>
    /\ peaks = <<>>
    /\ queue = <<>>
    /\ IdleTest
    /\ IdleScript
    /\ IdleMain

unchangedByCache == <<db, args, peaks, queue, testVars, scriptVars, mainVars, run>>

\* history: the step of a key has run with the key's file in the cache
Rerun(f, key) == [f EXCEPT !.reran = IF is_cached(fs, key) THEN @ \cup {key} ELSE @]

\* the step may run: its tool has not been called MaxCalls times already
MayCall(key) == is_cached(fs, key) \/ fs.calls[key] < MaxCalls

SplitStep(strand) ==
    /\ fs.cache_dir
    /\ MayCall(bam_key(args.BAM_IN, strand))
    /\ fs' = Rerun(pysam_strand_split(fs, args.BAM_IN, strand),
                   bam_key(args.BAM_IN, strand))
    /\ UNCHANGED unchangedByCache

CreateDbStep ==
    /\ fs.cache_dir
    /\ MayCall(db_key(args.GFF_IN))
    /\ \E ok \in BOOLEAN, partial \in BOOLEAN :
           fs' = Rerun(create_db(fs, args.GFF_IN, ok, partial).fs,
                       db_key(args.GFF_IN))
    /\ UNCHANGED unchangedByCache

\* MACS2 reads the strand's BAM file, which the split has made
CallPeaksStep(strand) ==
    /\ fs.cache_dir
    /\ is_cached(fs, bam_key(args.BAM_IN, strand))
    /\ MayCall(peaks_key(strand))
    /\ \E exit_code \in {0, 1}, partial \in BOOLEAN :
           fs' = Rerun(call_peaks(fs, strand, exit_code, partial).fs,
                       peaks_key(strand))
    /\ UNCHANGED unchangedByCache

\* the cache is cleared and made anew, as between two runs without
\* --keep-cache
ClearCache ==
    /\ fs.cache_dir
    /\ fs.clears < MaxClears
    /\ fs' = [rmtree(fs) EXCEPT !.cache_dir = TRUE, !.clears = @ + 1,
                                !.calls = [k \in DOMAIN @ |-> 0],
                                !.reran = {}]
    /\ UNCHANGED unchangedByCache

NextCache ==
    \/ \E strand \in Strands : SplitStep(strand)
    \/ CreateDbStep
    \/ \E strand \in Strands : CallPeaksStep(strand)
    \/ ClearCache

SpecCache == InitCache /\ [][NextCache]_vars

---------------------------------------------------------------------------
(* SpecRun: a whole run of _main, from the setup of logging to the exit of *)
(* the process, with failing tools and a user interrupt                    *)

\* the command line: parsed without error, rejected by argparse, --version
CommandLine(kind, override, extend, force, keep_cache, processors) ==
    [kind |-> kind, override |-> override, extend |-> extend, force |-> force,
     keep_cache |-> keep_cache, processors |-> processors]

CommandLines ==
    {CommandLine("ok", o, e, f, k, n) :
         o \in BOOLEAN, e \in BOOLEAN, f \in BOOLEAN, k \in BOOLEAN, n \in {1, 2}}
    \cup {CommandLine(kind, FALSE, FALSE, FALSE, k, 1) :
              kind \in {"usage_error", "version"}, k \in BOOLEAN}

\* argparser.parse_args() of a command line that parses
RunArgs(argv) ==
    [max_distance |-> max_distance_default,
     override_utr |-> argv.override, extend_utr |-> argv.extend,
     processors |-> argv.processors, force |-> argv.force,
     keep_cache |-> argv.keep_cache,
     GFF_IN |-> <<"annot">>, BAM_IN |-> <<"reads">>]

RunKeys == CacheKeys(<<"annot">>, <<"reads">>)

\* no cache directory yet
NoCache == [EmptyCache(RunKeys) EXCEPT !.cache_dir = FALSE]

\* the cache a run with --keep-cache has left
FilledCache ==
    [EmptyCache(RunKeys) EXCEPT
         !.cache = [k \in RunKeys |-> [call |-> 0, complete |-> TRUE]]]

\* the peaks the peak files of the run hold
RunPeaks == Pick(FixturePeaks, {2, 3})

\* the sections of _main in which it is suspended in an await
Awaiting == {"gather", "sleep"}

\* the sections of the try body that run synchronous code of _main
Synchronous ==
    {"setup_logging", "define_outputs", "parse_args", "checks", "split",
     "load_peaks", "process_peaks", "start", "aggregate", "post", "summary",
     "finished"}

InitRun ==
    /\ run \in {[argv |-> c, raised |-> "none", code |-> "", exit |-> "running",
                 log |-> <<>>, steps |-> {}, gathered |-> {}, error_log |-> <<>>,
                 interrupt_at |-> "none", failures |-> {}, output_before |-> o] :
                    c \in CommandLines, o \in {"absent", "old"}}
    /\ fs \in {[f EXCEPT !.output = run.output_before] :
                   f \in {NoCache, FilledCache}}
    /\ pc = "setup_logging"
    /\ args = <<>>
    /\ db = <<>>
    /\ peaks = <<>>
    /\ queue = <<>>
    /\ processes = <<>>
    /\ annotations = <<>>
    /\ pbar = 0
    /\ cur = 0
    /\ reads = <<>>
    /\ merged = {}
    /\ IdleTest
    /\ IdleScript

procVars == <<queue, processes, annotations, pbar, cur, reads, merged>>
idleVars == <<testVars, scriptVars>>

\* raise SystemExit(code), as sys.exit(code) does
sys_exit(r, code) == [r EXCEPT !.raised = "SystemExit", !.code = code]

\* lines 93-111: logging handlers, .log directory
SetupLogging ==
    /\ pc = "setup_logging"
    /\ pc' = "define_outputs"
    /\ UNCHANGED <<db, args, peaks, procVars, idleVars, run, fs>>

\* lines 117-119: os.mkdir(constants.CACHE_DIR) unless it exists
MakeCacheDir ==
    /\ pc = "define_outputs"
    /\ fs' = IF fs.cache_dir THEN fs
             ELSE [fs EXCEPT !.cache_dir = TRUE, !.made = TRUE]
    /\ pc' = "parse_args"
    /\ UNCHANGED <<db, args, peaks, procVars, idleVars, run>>

\* lines 121-125: args = argparser.parse_args(); argparse leaves with
\* status 2 on a usage error and with status 0 after --version
ParseArgs ==
    /\ pc = "parse_args"
    /\ CASE run.argv.kind = "ok" ->
              /\ args' = RunArgs(run.argv)
              /\ pc' = "checks"
              /\ UNCHANGED run
         [] run.argv.kind = "usage_error" ->
              /\ run' = sys_exit(run, "2")
              /\ pc' = "finally"
              /\ UNCHANGED args
         [] run.argv.kind = "version" ->
              /\ run' = sys_exit(run, "0")
              /\ pc' = "finally"
              /\ UNCHANGED args
    /\ UNCHANGED <<db, peaks, procVars, idleVars, fs>>

\* mutant: only the existing output file is checked
config_error_output_only(a, f) == f.output # "absent" /\ ~a.force

\* lines 131-137: the two conditions that abort the run
config_error(a, f) ==
    \/ f.output # "absent" /\ ~a.force
    \/ a.override_utr /\ a.extend_utr

Checks ==
    /\ pc = "checks"
    /\ IF config_error(args, fs)
       THEN /\ run' = sys_exit([run EXCEPT !.log = Append(@, "config_error")], "1")
            /\ pc' = "finally"
       ELSE /\ pc' = "split"
            /\ UNCHANGED run
    /\ UNCHANGED <<db, args, peaks, procVars, idleVars, fs>>

\* line 143: BAMSplitter(bam_basename, args).process()
Split ==
    /\ pc = "split"
    /\ fs' = pysam_strand_split(pysam_strand_split(fs, args.BAM_IN, "forward"),
                                args.BAM_IN, "reverse")
    /\ run' = [run EXCEPT !.steps = @ \cup {"split"}]
    /\ pc' = "gather"
    /\ UNCHANGED <<db, args, peaks, procVars, idleVars>>

\* what a step of the gather does to the run: it is done, or its exception
\* leaves _main
gathered(r, step, raised, log) ==
    IF raised = "none"
    THEN [r EXCEPT !.steps = @ \cup {step}, !.gathered = @ \cup {step}]
    ELSE [r EXCEPT !.steps = @ \cup {step}, !.raised = raised,
                   !.error_log = log]

\* history: the tool of a step was called and failed
tool_failed(r, step, key, bad) ==
    [r EXCEPT !.failures = IF key \notin DOMAIN fs.cache /\ bad
                           THEN @ \cup {step} ELSE @]

\* lines 145-146: create_db(args.GFF_IN) inside asyncio.gather
GatherCreateDb ==
    /\ pc = "gather"
    /\ "create_db" \notin run.gathered
    /\ \E ok \in BOOLEAN, partial \in BOOLEAN :
           LET r == create_db(fs, args.GFF_IN, ok, partial)
           IN /\ fs' = r.fs
              /\ run' = tool_failed(gathered(run, "create_db", r.raised, <<>>),
                                    "create_db", db_key(args.GFF_IN), ~ok)
              /\ db' = IF r.raised = "none" THEN FixtureDB ELSE db
              /\ pc' = IF r.raised = "none" THEN pc ELSE "finally"
    /\ UNCHANGED <<args, peaks, procVars, idleVars>>

\* lines 147-148: call_peaks(bam_basename, strand) inside asyncio.gather
GatherCallPeaks(strand) ==
    /\ pc = "gather"
    /\ strand \notin run.gathered
    /\ \E exit_code \in {0, 1}, partial \in BOOLEAN :
           LET r == call_peaks(fs, strand, exit_code, partial)
           IN /\ fs' = r.fs
              /\ run' = tool_failed(gathered(run, strand, r.raised, r.log),
                                    strand, peaks_key(strand), exit_code # 0)
              /\ pc' = IF r.raised = "none" THEN pc ELSE "finally"
    /\ UNCHANGED <<db, args, peaks, procVars, idleVars>>

\* line 149: the gather returns when its three steps are done
GatherDone ==
    /\ pc = "gather"
    /\ run.gathered = {"create_db", "forward", "reverse"}
    /\ pc' = "load_peaks"
    /\ UNCHANGED <<db, args, peaks, procVars, idleVars, run, fs>>

\* lines 150-153: peaks = BroadPeaksList(...) + BroadPeaksList(...)
LoadPeaks ==
    /\ pc = "load_peaks"
    /\ peaks' = RunPeaks
    /\ pc' = "process_peaks"
    /\ UNCHANGED <<db, args, procVars, idleVars, run, fs>>

\* line 181: merge_and_gt_gff3_sort(db, annotations, new_gff_fn, args)
PostProcess ==
    /\ pc = "post"
    /\ run.exit = "running"
    /\ fs' = [fs EXCEPT !.output = "new"]
    /\ pc' = "summary"
    /\ UNCHANGED <<db, args, peaks, procVars, idleVars, run>>

\* line 182: write_summary_stats(annotations, total_peaks)
SummaryStats ==
    /\ pc = "summary"
    /\ run' = [run EXCEPT !.log = Append(@, "summary")]
    /\ pc' = "finished"
    /\ UNCHANGED <<db, args, peaks, procVars, idleVars, fs>>

\* line 184: logging.info("%s finished successfully.")
Finished ==
    /\ pc = "finished"
    /\ run' = [run EXCEPT !.log = Append(@, "success")]
    /\ pc' = "sleep"
    /\ UNCHANGED <<db, args, peaks, procVars, idleVars, fs>>

\* lines 185-186: await asyncio.sleep(1); sys.exit(0)
SleepExit ==
    /\ pc = "sleep"
    /\ run' = sys_exit(run, "0")
    /\ pc' = "finally"
    /\ UNCHANGED <<db, args, peaks, procVars, idleVars, fs>>

\* mutant: the handler leaves with status 0
interrupt_status_zero == "0"

\* line 189: sys.exit(130)
interrupt_status == "130"

\* how the interpreter ends a process whose KeyboardInterrupt nobody caught:
\* killed by SIGINT, or status 1 on older interpreters
UnhandledInterruptStatus == {"SIGINT", "1"}

\* the user's interrupt reaches the run, once
Interruptible == run.exit = "running" /\ run.interrupt_at = "none"

interrupted(r, at) ==
    [r EXCEPT !.interrupt_at = at, !.log = Append(@, "KeyboardInterrupt")]

\* lines 187-189: KeyboardInterrupt raised in the code of the try body is
\* caught: the abort is logged, sys.exit(130)
InterruptHandled ==
    /\ Interruptible
    /\ pc \in Synchronous
    /\ run' = sys_exit([interrupted(run, pc) EXCEPT
                            !.log = Append(@, "user_interrupted")],
                       interrupt_status)
    /\ pc' = "finally"
    /\ UNCHANGED <<db, args, peaks, procVars, idleVars, fs>>

\* while _main is suspended in an await the interrupt is raised in the event
\* loop: _main is cancelled, its finally block runs, and the
\* KeyboardInterrupt leaves asyncio.run without passing through line 187
InterruptAwaiting ==
    /\ Interruptible
    /\ pc \in Awaiting
    /\ run' = [interrupted(run, pc) EXCEPT !.raised = "KeyboardInterrupt"]
    /\ pc' = "finally"
    /\ UNCHANGED <<db, args, peaks, procVars, idleVars, fs>>

\* an interrupt while the finally block runs replaces the exception on its
\* way out; the cache is not cleared to the end
InterruptFinally ==
    /\ Interruptible
    /\ pc = "finally"
    /\ run' = [interrupted(run, pc) EXCEPT !.raised = "KeyboardInterrupt"]
    /\ pc' = "exiting"
    /\ UNCHANGED <<db, args, peaks, procVars, idleVars, fs>>

\* lines 190-196: the cache is cleared unless --keep-cache; when args was
\* never bound the NameError is passed over and the cache stays
Finally ==
    /\ pc = "finally"
    /\ IF args = <<>>
       THEN UNCHANGED <<run, fs>>
       ELSE IF ~args.keep_cache
            THEN /\ run' = [run EXCEPT !.log = Append(@, "clearing_cache")]
                 /\ fs' = rmtree(fs)
            ELSE UNCHANGED <<run, fs>>
    /\ pc' = "exiting"
    /\ UNCHANGED <<db, args, peaks, procVars, idleVars>>

\* the exception leaves _main and asyncio.run, and the process ends
Exit ==
    /\ pc = "exiting"
    /\ \E status \in
           CASE run.raised = "SystemExit" -> {run.code}
             [] run.raised = "KeyboardInterrupt" -> UnhandledInterruptStatus
             [] OTHER -> {"1"} :
           run' = [run EXCEPT !.exit = status]
    /\ pc' = "exited"
    /\ UNCHANGED <<db, args, peaks, procVars, idleVars, fs>>

NextRun ==
    \/ SetupLogging
    \/ MakeCacheDir
    \/ ParseArgs
    \/ Checks
    \/ Split
    \/ GatherCreateDb
    \/ \E strand \in Strands : GatherCallPeaks(strand)
    \/ GatherDone
    \/ LoadPeaks
    \/ CreateProcesses
    \/ StartProcess
    \/ BeginAggregate
    \/ ConsumeResult
    \/ NextProcess
    \/ EndAggregate
    \/ \E w \in Workers : WorkerPut(w)
    \/ \E w \in Workers : WorkerExit(w)
    \/ PostProcess
    \/ SummaryStats
    \/ Finished
    \/ SleepExit
    \/ InterruptHandled
    \/ InterruptAwaiting
    \/ InterruptFinally
    \/ Finally
    \/ Exit

SpecRun == InitRun /\ [][NextRun]_vars

---------------------------------------------------------------------------
(* The vocabulary of the properties: windows and candidates read off the   *)
(* database itself                                                         *)

\* the features of a strand within `distance` of [pstart, pend], by their
\* place in the database
InWindow(pstart, pend, strand, distance) ==
    {k \in 1..Len(db) :
        /\ db[k].strand = strand
        /\ db[k].start <= pend + distance
        /\ db[k].end >= pstart - distance}

\* the candidate genes of a window, and those of another type
Candidates(W) == {k \in W : db[k].featuretype = "gene"}
UTRFeatures(W) == {k \in W : db[k].featuretype = "three_prime_UTR"}

\* j and k are neighbours in the start-sorted list of candidates
Adjacent(C, j, k) ==
    /\ j \in C
    /\ k \in C
    /\ j < k
    /\ \A m \in C : ~(j < m /\ m < k)

\* the peak [pstart, pend] spans the boundary between gene j and gene k
Spans(pstart, pend, j, k) == pstart < db[j].end /\ pend > db[k].start

\* gene k is the first or the second gene of a boundary the peak spans
InConflict(C, k, pstart, pend) ==
    \E m \in C : \/ Adjacent(C, k, m) /\ Spans(pstart, pend, k, m)
                 \/ Adjacent(C, m, k) /\ Spans(pstart, pend, m, k)

\* the peak lies strictly inside gene k
Inside(pstart, pend, k) == db[k].start < pstart /\ pend < db[k].end

---------------------------------------------------------------------------
(* Properties of SpecScript                                                *)

\* the lines the peak loop has processed
Processed == 1..line

ScriptWindow(peak) ==
    InWindow(int(peak.start), int(peak.end), "+", maxDistanceFromTranscript)

\* the records in `out` that a line produced, and those for one gene
RecordsFrom(peak) == {r \in 1..Len(out) : out[r].peak = peak.name}
RecordsFor(peak, k) == {r \in RecordsFrom(peak) : out[r].Parent = db[k].id}

\* C1 (as claimed): a peak that spans the boundary of two genes adjacent in
\* the candidate list produces no UTR record for the first gene and none for
\* the second.  The script skips only the first of the two.
C1_NeighborDiscardsBoth ==
    \A i \in Processed :
        LET peak == broad_peaks[i]
            C == Candidates(ScriptWindow(peak))
        IN \A j \in C, k \in C :
               (Adjacent(C, j, k) /\ Spans(int(peak.start), int(peak.end), j, k))
                   => RecordsFor(peak, j) = {} /\ RecordsFor(peak, k) = {}

\* the extension rule for the candidate genes of one processed line
ExtensionRule(peak) ==
    LET C == Candidates(ScriptWindow(peak))
        ps == int(peak.start)
        pe == int(peak.end)
    IN /\ \A k \in C :
              (~Inside(ps, pe, k) /\ ~InConflict(C, k, ps, pe)) =>
                  /\ RecordsFor(peak, k) # {} <=> pe > db[k].end
                  /\ \A r \in RecordsFor(peak, k) :
                         /\ out[r].start = db[k].end
                         /\ out[r].end = peak.end
       /\ (\A k \in C : ~(pe > db[k].end)) => RecordsFrom(peak) = {}

\* C3 (as claimed): for every candidate gene that neither contains the peak
\* nor is in a neighbour conflict, a record is emitted exactly when
\* peak.end > gene.end, with range [gene.end, peak.end]; and no record at all
\* when peak.end > gene.end fails for every candidate gene.
C3_ExtensionEveryWindow ==
    \A i \in Processed : ExtensionRule(broad_peaks[i])

\* C3 (amended): the same, for the peaks whose window holds no annotated
\* three_prime_UTR feature; near an annotated 3' UTR the script emits nothing.
C3_ExtensionDirection ==
    \A i \in Processed :
        LET peak == broad_peaks[i]
        IN IF UTRFeatures(ScriptWindow(peak)) # {}
           THEN RecordsFrom(peak) = {}
           ELSE ExtensionRule(peak)

\* C3 witness: the gene ends at 1000, the peak is [900, 1200], and the record
\* (1000, 1200) has been emitted for the gene
C3_Witness ==
    /\ line = 1
    /\ broad_peaks[1].start = <<9, 0, 0>>
    /\ broad_peaks[1].end = <<1, 2, 0, 0>>
    /\ \E r \in 1..Len(out), k \in 1..Len(db) :
           /\ db[k].featuretype = "gene"
           /\ db[k].end = 1000
           /\ out[r].Parent = db[k].id
           /\ out[r].start = 1000
           /\ out[r].end = <<1, 2, 0, 0>>

\* C4: when the window of a peak holds a three_prime_UTR feature, no UTR
\* record is emitted from this peak for the gene that owns that UTR.
C4_AlreadyAnnotatedSkip ==
    \A i \in Processed :
        LET peak == broad_peaks[i]
        IN \A u \in UTRFeatures(ScriptWindow(peak)) :
               \A r \in RecordsFrom(peak) : out[r].Parent # db[u].Parent

\* C4 witness: a processed peak whose window holds the 3' UTR of a candidate
\* gene past whose end the peak extends, the gene neither containing the peak
\* nor in a neighbour conflict
C4_Witness ==
    /\ line = 1
    /\ LET peak == broad_peaks[1]
           W == ScriptWindow(peak)
           C == Candidates(W)
       IN \E u \in UTRFeatures(W), k \in C :
              /\ db[u].Parent = db[k].id
              /\ int(peak.end) > db[k].end
              /\ ~Inside(int(peak.start), int(peak.end), k)
              /\ ~InConflict(C, k, int(peak.start), int(peak.end))

NoFeaturesPrinted(peak) ==
    \E m \in 1..Len(stdout) :
        stdout[m].msg = "no_features" /\ stdout[m].peak = peak.name

\* C6 (as claimed): the NoNearbyFeatures outcome is produced for exactly the
\* peaks whose window holds no feature of type gene.  The script reports it
\* only for a window that holds no feature of any type.
C6_NoNearbyIffNoGene ==
    \A i \in Processed :
        LET peak == broad_peaks[i]
        IN NoFeaturesPrinted(peak) <=> Candidates(ScriptWindow(peak)) = {}

---------------------------------------------------------------------------
(* Properties of SpecAnnotate                                              *)

\* the test case has read the result of its peak
Got == result.py # "unset"
ThePeak == peaks[pos]
TheWindow ==
    InWindow(ThePeak.start, ThePeak.end,
             IF ThePeak.strand = "forward" THEN "+" ELSE "-", args.max_distance)

\* the dict entries of a result for gene k (none unless the result is a dict)
EntriesFor(v, k) ==
    IF v.py = "dict" THEN {e \in v.items : e.key = db[k].id} ELSE {}

\* C2: a peak strictly inside a candidate gene yields no UTR record for that
\* gene; when that gene is the only candidate, what the queue returns for the
\* peak is None: neither NoNearbyFeatures nor a record.
C2_ContainmentDiscard ==
    Got =>
        LET C == Candidates(TheWindow)
        IN \A k \in C :
               Inside(ThePeak.start, ThePeak.end, k) =>
                   /\ EntriesFor(result, k) = {}
                   /\ C = {k} => result = None

\* C2 witness: the only candidate gene strictly contains the peak, no
\* annotated 3' UTR is near, and the result has been read
C2_Witness ==
    /\ Got
    /\ UTRFeatures(TheWindow) = {}
    /\ \E k \in Candidates(TheWindow) :
           /\ Candidates(TheWindow) = {k}
           /\ Inside(ThePeak.start, ThePeak.end, k)

\* the database without its three_prime_UTR features
NotUTR(f) == f.featuretype # "three_prime_UTR"
WithoutUTRs(d) == SelectSeq(d, NotUTR)

\* gene k would be extended by the peak: on the forward strand the peak ends
\* past the gene's end, on the reverse strand it starts before the gene's start
WouldExtend(C, k) ==
    /\ ~Inside(ThePeak.start, ThePeak.end, k)
    /\ ~InConflict(C, k, ThePeak.start, ThePeak.end)
    /\ IF ThePeak.strand = "forward"
       THEN ThePeak.end > db[k].end
       ELSE ThePeak.start < db[k].start

---------------------------------------------------------------------------
(* Spec and FairSpec: the properties of the peak processing of _main       *)

PeakNames == {peaks[i].name : i \in 1..Len(peaks)}

\* the peaks near no gene: those whose window holds no candidate gene
NoNearbyPeaks ==
    {peaks[i].name : i \in {j \in 1..Len(peaks) :
        Candidates(InWindow(peaks[j].start, peaks[j].end,
                            IF peaks[j].strand = "forward" THEN "+" ELSE "-",
                            args.max_distance)) = {}}}

\* C7: after a full run the no-nearby-features counter equals the number of
\* peaks near no gene, and at no time has the result of such a peak been
\* passed to annotations.update.
C7_CounterAccuracy ==
    /\ pc = "post" =>
           annotations.no_features_counter = Cardinality(NoNearbyPeaks)
    /\ merged \cap NoNearbyPeaks = {}

RECURSIVE Flatten(_)
Flatten(ss) == IF ss = <<>> THEN <<>> ELSE Head(ss) \o Flatten(Tail(ss))

BatchOf(i) == processes[i].batch
NamesIn(batch) == {batch[k].name : k \in 1..Len(batch)}
Created == pc \in {"start", "aggregate", "post"}

Started == pc \in {"aggregate", "post"}
Ceil(a, b) == (a + b - 1) \div b

ReadOnce ==
    /\ pbar = Len(reads)
    /\ \A i \in 1..Len(reads) : reads[i] \in PeakNames
    /\ \A i, j \in 1..Len(reads) : i # j => reads[i] # reads[j]

\* at the end every peak's result has been read, nothing is left in the
\* queue and every worker has exited
AllRead ==
    pc = "post" =>
        /\ pbar = Len(peaks)
        /\ {reads[i] : i \in 1..Len(reads)} = PeakNames
        /\ queue = <<>>
        /\ \A w \in Workers : processes[w].state = "exited"

AnnotationSet(a) ==
    [records |-> {<<e.key, e.utr>> : e \in a.data},
     no_features_counter |-> a.no_features_counter]

\* the annotations after folding the results of the first n peaks in the
\* order of the peak list, as a run with one worker reads them
RECURSIVE InPeakOrder(_)
InPeakOrder(n) ==
    IF n = 0 THEN Annotations
    ELSE fold(InPeakOrder(n - 1), put_item(db, peaks[n], args).value)

\* C11: the final annotation set (gene id to record mapping and counter) is
\* the same for every order in which the results arrive on the queue: it is
\* the one that reading the results in peak order gives.
C11_Determinism ==
    pc = "post" => AnnotationSet(annotations) = AnnotationSet(InPeakOrder(Len(peaks)))

\* the place of a peak's result in the order of arrival
ReadPos(name) == CHOOSE i \in 1..Len(reads) : reads[i] = name

\* C11 witness: two peaks of different workers gave records for the same gene,
\* the result of the later peak of the list was read first, and the run ended
C11_Witness ==
    /\ pc = "post"
    /\ Len(processes) >= 2
    /\ \E i, j \in 1..Len(peaks) :
           /\ i < j
           /\ {peaks[i].name, peaks[j].name} \subseteq merged
           /\ peaks[i].end # peaks[j].end
           /\ ReadPos(peaks[j].name) < ReadPos(peaks[i].name)

\* the peaks of the run that claim gene k: forward peaks near the gene, not
\* inside it, ending past its end
Claiming(k) ==
    {i \in 1..Len(peaks) :
        /\ peaks[i].strand = "forward"
        /\ k \in Candidates(InWindow(peaks[i].start, peaks[i].end, "+",
                                     args.max_distance))
        /\ ~Inside(peaks[i].start, peaks[i].end, k)
        /\ peaks[i].end > db[k].end}

ClaimLength(i, k) == peaks[i].end - db[k].end

\* C12: of the records that the peaks of a run emit for one gene, the final
\* annotations hold the one of the longest range; among equally long ones the
\* one of the highest signal_value; among those the one that arrived first.
C12_TieBreak ==
    pc = "post" =>
        \A k \in 1..Len(db) :
            Claiming(k) # {} =>
                \E h \in Claiming(k) :
                    /\ {e \in annotations.data : e.key = db[k].id}
                           = {[key |-> db[k].id,
                               utr |-> <<db[k].end, peaks[h].end>>,
                               signal_value |-> peaks[h].signal_value,
                               peak |-> peaks[h].name]}
                    /\ \A j \in Claiming(k) \ {h} :
                           \/ ClaimLength(j, k) < ClaimLength(h, k)
                           \/ /\ ClaimLength(j, k) = ClaimLength(h, k)
                              /\ peaks[j].signal_value < peaks[h].signal_value
                           \/ /\ ClaimLength(j, k) = ClaimLength(h, k)
                              /\ peaks[j].signal_value = peaks[h].signal_value
                              /\ ReadPos(peaks[h].name) < ReadPos(peaks[j].name)

\* C12 witness: the run ended; the longer of two records for a gene arrived
\* before the shorter one and is the one held
C12_Witness ==
    /\ pc = "post"
    /\ \E k \in 1..Len(db) : \E i, j \in Claiming(k) :
           /\ ClaimLength(i, k) > ClaimLength(j, k)
           /\ ReadPos(peaks[i].name) < ReadPos(peaks[j].name)
           /\ \E e \in annotations.data : e.peak = peaks[i].name

\* the genes a processed line produced records for
GenesWithRecords(peak) ==
    {k \in 1..Len(db) : db[k].featuretype = "gene" /\ RecordsFor(peak, k) # {}}

\* C19: one peak yields a UTR record for at most one gene, and the range
\* [gene.end, peak.end] of an emitted record overlaps the interval of no other
\* candidate gene of the peak's window.
C19_SingleAttribution ==
    \A i \in Processed :
        LET peak == broad_peaks[i]
            C == Candidates(ScriptWindow(peak))
        IN /\ Cardinality(GenesWithRecords(peak)) <= 1
           /\ \A r \in RecordsFrom(peak) : \A k \in C :
                  db[k].id # out[r].Parent =>
                      ~(db[k].start <= int(out[r].end) /\ db[k].end >= out[r].start)

\* the consumer reads a skip emission: the next result of the queue is None
ReadsSkip == pbar' = pbar + 1 /\ Head(queue).value = None

\* a skip emission has been read
SkipRead == \E i \in 1..Len(reads) : \E j \in 1..Len(peaks) :
                /\ peaks[j].name = reads[i]
                /\ put_item(db, peaks[j], args).value = None

\* C17: reading a None result changes neither the annotation mapping nor the
\* no-nearby-features counter, the result is not handed to update, and the
\* aggregation goes on until every result of every worker has been read.
C17_SkipLeavesAggregate ==
    /\ [][ReadsSkip => /\ annotations' = annotations
                       /\ merged' = merged
                       /\ pc' = "aggregate"]_vars
    /\ [](SkipRead => <>(pc = "post" /\ pbar = Len(peaks)))

\* C17 witness: a skip emission was read before the record of a sibling
\* worker, which is in the annotations at the end of the run
C17_Witness ==
    /\ pc = "post"
    /\ Len(processes) >= 2
    /\ annotations.data # {}
    /\ \E i, j \in 1..Len(reads) :
           /\ i < j
           /\ reads[j] \in merged
           /\ \E n \in 1..Len(peaks) :
                  /\ peaks[n].name = reads[i]
                  /\ Inside(peaks[n].start, peaks[n].end, 1)

---------------------------------------------------------------------------
(* Properties of SpecCache                                                 *)

\* a step calls its external tool for the file `key`
Invoked(key) == fs'.calls[key] > fs.calls[key]

\* the file of a key is in the cache, written to its end
Built(key) == key \in DOMAIN fs.cache /\ fs.cache[key].complete

\* C18: a build step calls its tool only when its cache file does not exist;
\* once a step has succeeded and as long as the cache is not cleared, running
\* it again calls the tool no more and leaves the file as it is; the database
\* build and the two peak callings, which run concurrently, have three
\* different cache files.
C18_IdempotentCache ==
    /\ [][\A key \in DOMAIN fs.calls :
              Invoked(key) => key \notin DOMAIN fs.cache]_vars
    /\ [][\A key \in DOMAIN fs.calls :
              (Built(key) /\ fs'.clears = fs.clears) =>
                  /\ ~Invoked(key)
                  /\ key \in DOMAIN fs'.cache
                  /\ fs'.cache[key] = fs.cache[key]]_vars
    /\ [](Cardinality({db_key(args.GFF_IN), peaks_key("forward"),
                       peaks_key("reverse")}) = 3)

\* C18 witness: every step has succeeded with one call of its tool and has
\* then been run again on the filled cache
C18_Witness ==
    /\ pc = "idle"
    /\ fs # <<>>
    /\ DOMAIN fs.cache = DOMAIN fs.calls
    /\ fs.reran = DOMAIN fs.calls
    /\ \A key \in DOMAIN fs.calls : Built(key) /\ fs.calls[key] = 1

---------------------------------------------------------------------------
(* Properties of SpecRun                                                   *)

\* the command line asks for both --override-utr and --extend-utr, or the
\* output file exists and --force is not given
ConfigurationError ==
    /\ run.argv.kind = "ok"
    /\ \/ run.argv.override /\ run.argv.extend
       \/ run.output_before # "absent" /\ ~run.argv.force

NoToolCalled == \A key \in DOMAIN fs.calls : fs.calls[key] = 0

\* C13: on a run with a configuration error no preprocessing step is started,
\* no tool is called, no worker process exists, no peak is processed, the
\* output is not written, and the run, unless interrupted, exits with status 1.
C13_ConfigRejected ==
    ConfigurationError =>
        /\ run.steps = {}
        /\ NoToolCalled
        /\ db = <<>>
        /\ processes = <<>>
        /\ reads = <<>>
        /\ fs.output = run.output_before
        /\ (pc = "exited" /\ run.interrupt_at = "none") => run.exit = "1"

\* C13 witness: both flags given, no output file in the way, and the run has
\* ended with status 1 after logging the error
C13_Witness ==
    /\ pc = "exited"
    /\ run.argv.override
    /\ run.argv.extend
    /\ run.output_before = "absent"
    /\ run.exit = "1"
    /\ run.log = <<"config_error", "clearing_cache">>

\* C14: once the peak caller has failed for a strand or the database build has
\* failed, no worker process is ever created, no annotations exist, the output
\* is not written and the run does not end with status 0; for a failed peak
\* calling the error is a MACS2Error that names the log file of a failed strand.
C14_CollaboratorFailureFatal ==
    run.failures # {} =>
        /\ processes = <<>>
        /\ annotations = <<>>
        /\ reads = <<>>
        /\ fs.output = run.output_before
        /\ pc = "exited" => run.exit # "0"
        /\ (run.failures \subseteq Strands /\ run.interrupt_at = "none") =>
               /\ run.raised = "MACS2Error"
               /\ \E st \in run.failures :
                      run.error_log =
                          <<IF st = "forward" THEN "forward_macs2"
                            ELSE "reverse_macs2", "log">>

\* C14 witness: the database was built, MACS2 failed for the forward strand,
\* and the run has ended with status 1
C14_Witness ==
    /\ pc = "exited"
    /\ run.failures = {"forward"}
    /\ "create_db" \in run.gathered
    /\ run.raised = "MACS2Error"
    /\ run.error_log = <<"forward_macs2", "log">>
    /\ run.exit = "1"

Interrupted == run.interrupt_at # "none"

\* no success message and no summary statistics after the interrupt
NothingAfterInterrupt ==
    \A i, j \in 1..Len(run.log) :
        (i < j /\ run.log[i] = "KeyboardInterrupt") =>
            run.log[j] \notin {"success", "summary"}

C16_CacheTeardown ==
    (pc = "exited" /\ fs.made) => (fs.cache_dir <=> run.argv.keep_cache)

=============================================================================
